---- MODULE Spec2Model ----
(***************************************************************************)
(* A model of mailpost (src/main.go): one pipeline run fetches unread      *)
(* mails, walks their MIME trees into the posts and images working sets,   *)
(* fetches remotely referenced images, rewrites the image references of    *)
(* every post and writes the posts to files.                               *)
(*                                                                         *)
(* Text is a sequence of tokens.  A token is a run of characters that no   *)
(* pattern of the program splits: the markup atoms "![", "](", ")",        *)
(* "{{<", "src=\"", "\"", the white space " " and "\n", and words such as  *)
(* "apple" and ".jpg".  Searching and replacing (strings.Replace) and the  *)
(* regular expressions work on these sequences as the Go code works on     *)
(* the characters.                                                         *)
(*                                                                         *)
(* The mail server, the file system and the directories always answer:     *)
(* the log.Fatalf exits on their errors are left out.  The two panics of   *)
(* the code (a nil response in RetrieveImages, a nil image in SaveImage)   *)
(* are states with pc = "panic".  A remote image that is fetched decodes.  *)
(***************************************************************************)
EXTENDS Integers, Sequences, FiniteSets, TLC

\* ------------------------------------------------------------- bounds

\* Mails fetched over the whole life of the process.
MaxMails == 2

\* Iterations of the poll loop of main.
MaxRuns == 2

\* ------------------------------------------------------------ strings

Last(s) == s[Len(s)]

\* strings.HasPrefix
HasPrefix(s, prefix) ==
    /\ Len(prefix) <= Len(s)
    /\ SubSeq(s, 1, Len(prefix)) = prefix

\* strings.Index: the first place of sub in s, 0 when there is none.
Index(s, sub) ==
    LET places == { k \in 1..(Len(s) - Len(sub) + 1) :
                      SubSeq(s, k, k + Len(sub) - 1) = sub }
    IN  IF places = {} THEN 0
        ELSE CHOOSE k \in places : \A l \in places : k <= l

\* strings.Replace(s, old, new, 1): the first occurrence only; an empty old
\* matches at the beginning of s.
Replace(s, old, new) ==
    IF old = new THEN s
    ELSE IF old = <<>> THEN new \o s
    ELSE LET k == Index(s, old)
         IN  IF k = 0 THEN s
             ELSE SubSeq(s, 1, k - 1) \o new
                    \o SubSeq(s, k + Len(old), Len(s))

\* strings.Trim(s, " ")
RECURSIVE Trim(_)
Trim(s) ==
    IF s = <<>> THEN s
    ELSE IF Head(s) = " " THEN Trim(Tail(s))
    ELSE IF Last(s) = " " THEN Trim(SubSeq(s, 1, Len(s) - 1))
    ELSE s

\* strings.ToLower, on the words of the model.
LowerToken(t) ==
    CASE t = "Apple" -> "apple"
      [] t = ".JPG"  -> ".jpg"
      [] t = "Hello" -> "hello"
      [] t = "Post"  -> "post"
      [] OTHER       -> t

ToLower(s) == [k \in 1..Len(s) |-> LowerToken(s[k])]

\* The tokens made of one character outside [A-Za-z0-9_.].
NonWord == {" ", "/", "\n", "\"", ")", "|"}

\* SanitizeFilename: lower case, then every character outside [\w.] becomes "_".
SanitizeFilename(name) ==
    LET low == ToLower(name)
    IN  [k \in 1..Len(low) |-> IF low[k] \in NonWord THEN "_" ELSE low[k]]

\* The tokens that begin with a dot: a name's extension when they end it.
DotTokens == {".jpg", ".png", ".JPG", ".md", "."}

\* filepath.Ext: the suffix of the name from its last dot on.
Ext(name) ==
    IF name # <<>> /\ Last(name) \in DotTokens THEN <<Last(name)>> ELSE <<>>

\* filepath.Base: the last element of a path; "." for the empty path.
RECURSIVE Base(_)
Base(path) ==
    IF path = <<>> THEN <<".">>
    ELSE IF Last(path) = "/"
         THEN IF Len(path) = 1 THEN <<"/">>
              ELSE Base(SubSeq(path, 1, Len(path) - 1))
    ELSE LET slashes == { k \in 1..Len(path) : path[k] = "/" }
         IN  IF slashes = {} THEN path
             ELSE SubSeq(path,
                         (CHOOSE k \in slashes : \A l \in slashes : l <= k) + 1,
                         Len(path))

\* filepath.Join: the non-empty elements, joined by "/".
RECURSIVE Join(_)
Join(elems) ==
    IF elems = <<>> THEN <<>>
    ELSE IF Head(elems) = <<>> THEN Join(Tail(elems))
    ELSE LET rest == Join(Tail(elems))
         IN  IF rest = <<>> THEN Head(elems)
             ELSE Head(elems) \o <<"/">> \o rest

\* url.Parse(u).Path of scheme://host/path: what follows the host.
UrlPath(u) == SubSeq(u, 3, Len(u))

\* ------------------------------------------------ regular expressions

IsSpace(t) == t \in {" ", "\n"}

\* The class [\s|\)] that ends a markdown locator.
IsTerm(t) == t \in {" ", "\n", "|", ")"}

IsScheme(t) == t \in {"http://", "https://"}

\* . matches every character but the line break.
NoNewline(s, a, b) == \A k \in a..b : s[k] # "\n"

\* The least element of a non-empty set of numbers, the greatest, and 0 for
\* the empty set.
Least(S) == IF S = {} THEN 0 ELSE CHOOSE k \in S : \A l \in S : k <= l

Greatest(S) == IF S = {} THEN 0 ELSE CHOOSE k \in S : \A l \in S : l <= k

\* The number of white-space tokens of s from place k on.
SpaceRun(s, k) ==
    LET stop == Least({ e \in k..Len(s) : ~IsSpace(s[e]) })
    IN  IF stop = 0 THEN Len(s) + 1 - k ELSE stop - k

None == [ok |-> FALSE, capture |-> <<>>, end |-> 0]

\* \s*(.*?)[\s|\)] from place k on (after "]("): \s* takes all the white
\* space it can and gives it back only when nothing matches otherwise; the
\* lazy group stops at the first terminator.  With remote, the group is
\* (https{0,1}://.*?).
MdTail(s, k, remote) ==
    LET w    == SpaceRun(s, k)
        c    == k + w
        from == IF remote THEN c + 1 ELSE c
        e    == Least({ x \in from..Len(s) : IsTerm(s[x]) })
    IN  IF remote
        THEN IF c <= Len(s) /\ IsScheme(s[c]) /\ e # 0
             THEN [ok |-> TRUE, capture |-> SubSeq(s, c, e - 1), end |-> e]
             ELSE None
        ELSE IF e # 0
             THEN [ok |-> TRUE, capture |-> SubSeq(s, c, e - 1), end |-> e]
             ELSE IF w >= 1
             THEN [ok |-> TRUE, capture |-> <<>>, end |-> c - 1]
             ELSE None

\* !\[.*\]\( ... anchored at place b: the greedy .* runs to the last "]("
\* of the line from which the rest still matches.
MdMatchAt(s, b, remote) ==
    IF s[b] # "![" THEN None
    ELSE LET mids == { m \in (b + 1)..Len(s) :
                         /\ s[m] = "]("
                         /\ NoNewline(s, b + 1, m - 1)
                         /\ MdTail(s, m + 1, remote).ok }
         IN  IF mids = {} THEN None ELSE MdTail(s, Greatest(mids) + 1, remote)

\* {{<\s*WORD.*src="(.*?)" anchored at place b, WORD being figure or img.
ScMatchAt(s, b, word) ==
    IF s[b] # "{{<" THEN None
    ELSE LET c    == b + 1 + SpaceRun(s, b + 1)
             srcs == { m \in (c + 1)..Len(s) :
                         /\ s[m] = "src=\""
                         /\ NoNewline(s, c + 1, m - 1)
                         /\ \E e \in (m + 1)..Len(s) :
                              s[e] = "\"" /\ NoNewline(s, m + 1, e - 1) }
         IN  IF c > Len(s) \/ s[c] # word \/ srcs = {} THEN None
             ELSE LET m == Greatest(srcs)
                      e == Least({ x \in (m + 1)..Len(s) : s[x] = "\"" })
                  IN  [ok |-> TRUE, capture |-> SubSeq(s, m + 1, e - 1),
                       end |-> e]

\* One anchored match of a pattern: reMdImg, the pattern of RetrieveImages,
\* reScFig, reScImg.
MatchAt(re, s, b) ==
    CASE re = "reMdImg"  -> MdMatchAt(s, b, FALSE)
      [] re = "reRemote" -> MdMatchAt(s, b, TRUE)
      [] re = "reScFig"  -> ScMatchAt(s, b, "figure")
      [] re = "reScImg"  -> ScMatchAt(s, b, "img")

\* regexp.FindAllStringSubmatch(s, -1), group 1 of every match: the leftmost
\* match from place `from` on, then the next one after its end.
RECURSIVE FindAllFrom(_, _, _)
FindAllFrom(re, s, from) ==
    LET b == Least({ x \in from..Len(s) : MatchAt(re, s, x).ok })
    IN  IF b = 0 THEN <<>>
        ELSE LET m == MatchAt(re, s, b)
             IN  <<m.capture>> \o FindAllFrom(re, s, m.end + 1)

FindAllStringSubmatch(re, s) == FindAllFrom(re, s, 1)

\* ------------------------------------------------------ configuration

\* Config, as read from the TOML file by ReadConfig.
ImageDir == <<"static", "/", "<date>">>

PostDir == <<"content", "/", "<type>", "/", "<date>">>

BaseURL == <<"base">>

ImagePath == <<"media">>

PostFrom == "me"

\* ------------------------------------------------------ path templates

\* time.Parse("2006-01-02", dateInfo) followed by Format(DatePathFmt), with
\* DatePathFmt = "2006/01": what does not parse is the zero time.
MakeDatePathPart(dateInfo) ==
    CASE dateInfo = <<"2015-01-02">> -> <<"2015/01">>
      [] dateInfo = <<"2015-02-03">> -> <<"2015/02">>
      [] OTHER                       -> <<"0001/01">>

\* PathParts carries Date and Type.
MakePathFromTemplate(pathTemplate, pathData) ==
    LET typed == IF pathData.Type # <<>>
                 THEN Replace(pathTemplate, <<"<type>">>, Trim(pathData.Type))
                 ELSE pathTemplate
    IN  IF pathData.Date # <<>>
        THEN Replace(typed, <<"<date>">>, pathData.Date)
        ELSE typed

MakePostPath(postInfo) ==
    Replace(Replace(postInfo.Path, <<"<type>">>, Trim(postInfo.Type)),
            <<"<date>">>, MakeDatePathPart(postInfo.Date))

\* ------------------------------------------------------------ entities

\* type Image; Path and URL are empty until SaveImage sets them.
NewImage(origURL, origName, data) ==
    [OrigURL |-> origURL, OrigName |-> origName, Name |-> <<>>,
     Path |-> <<>>, URL |-> <<>>, Data |-> data]

\* ExtractImageData: the name is sanitized and its extension replaced by
\* .jpg; the image joins the working set.
ExtractImageData(images, imageInfo) ==
    LET name == SanitizeFilename(imageInfo.OrigName)
        stem == SubSeq(name, 1, Len(name) - Len(Ext(name)))
    IN  Append(images, [imageInfo EXCEPT !.Name = stem \o <<".jpg">>])

\* yaml.Unmarshal into {title, date, type}: the first document of the text,
\* between its "---" lines; a text that is no mapping is an error.
FrontMatter(post) ==
    IF post = <<>> THEN <<>>
    ELSE LET close == Least({ k \in 2..Len(post) : post[k] = "---" })
         IN  SubSeq(post, 2, IF close = 0 THEN Len(post) ELSE close - 1)

YamlField(doc, key) ==
    LET k == Index(doc, <<key>>)
        e == Least({ x \in (k + 1)..Len(doc) : doc[x] = "\n" })
    IN  IF k = 0 THEN <<>>
        ELSE SubSeq(doc, k + 1, IF e = 0 THEN Len(doc) ELSE e - 1)

Unmarshal(post) ==
    IF post # <<>> /\ Head(post) # "---"
    THEN [err |-> TRUE, Title |-> <<>>, Date |-> <<>>, Type |-> <<>>]
    ELSE [err   |-> FALSE,
          Title |-> YamlField(FrontMatter(post), "title:"),
          Date  |-> YamlField(FrontMatter(post), "date:"),
          Type  |-> YamlField(FrontMatter(post), "type:")]

\* ExtractPostData: the post joins the working set unless the front matter
\* does not parse.
ExtractPostData(posts, post) ==
    LET t == Unmarshal(post)
        postInfo == [Title |-> t.Title, Date |-> t.Date,
                     Type  |-> ToLower(t.Type),
                     File  |-> SanitizeFilename(t.Title) \o <<".md">>,
                     Path  |-> PostDir, Data |-> post]
    IN  IF t.err THEN posts
        ELSE Append(posts, [postInfo EXCEPT !.Path = MakePostPath(postInfo)])

\* ------------------------------------------------------------ the mail

HasImage(contentType) ==
    \/ HasPrefix(contentType, <<"image/", "jpeg">>)
    \/ HasPrefix(contentType, <<"image/", "png">>)

HasText(contentType) ==
    \/ HasPrefix(contentType, <<"text/", "plain">>)
    \/ HasPrefix(contentType, <<"multipart/", "alternative">>)

HasMultipart(contentType) == HasPrefix(contentType, <<"multipart/">>)

\* The if-chain with the text test ahead of the multipart test.
HandlerTextFirst(contentType) ==
    IF HasText(contentType) THEN "text"
    ELSE IF HasMultipart(contentType) THEN "multipart"
    ELSE IF HasImage(contentType) THEN "image"
    ELSE "none"

\* The branch of ExtractAttachment's if-chain a part of this type takes.
Handler(contentType) ==
    IF HasMultipart(contentType) THEN "multipart"
    ELSE IF HasImage(contentType) THEN "image"
    ELSE IF HasText(contentType) THEN "text"
    ELSE "none"

\* ExtractAttachment: every part of the reader in turn.  w collects the
\* working sets, and in seen and handed what was dispatched where and which
\* texts went to ExtractPostData.
RECURSIVE ExtractAttachment(_, _)
ExtractAttachment(parts, w) ==
    IF parts = <<>> THEN w
    ELSE LET mimePart == Head(parts)
             h  == Handler(mimePart.ct)
             w1 == [w EXCEPT !.seen = Append(@, [ct |-> mimePart.ct, to |-> h])]
             w2 == CASE h = "multipart" ->
                          ExtractAttachment(mimePart.parts, w1)
                     [] h = "image" ->
                          [w1 EXCEPT !.images = ExtractImageData(@,
                              NewImage(<<>>, mimePart.filename, mimePart.data))]
                     [] h = "text" ->
                          [w1 EXCEPT !.posts = ExtractPostData(@, mimePart.body),
                                     !.handed = Append(@, mimePart.body)]
                     [] OTHER -> w1
         IN  ExtractAttachment(Tail(parts), w2)

\* quotedprintable.NewDecoder: a soft line break disappears, =3D is "=".
RECURSIVE QPDecode(_)
QPDecode(s) ==
    IF s = <<>> THEN <<>>
    ELSE IF Head(s) = "=\n" THEN QPDecode(Tail(s))
    ELSE IF Head(s) = "=3D" THEN <<"=">> \o QPDecode(Tail(s))
    ELSE <<Head(s)>> \o QPDecode(Tail(s))

\* The body of FetchMails' loop for one message.
ReadMessage(msg, w) ==
    IF ~(PostFrom = "" \/ PostFrom = msg.from) THEN w
    ELSE IF HasMultipart(msg.ct) THEN ExtractAttachment(msg.parts, w)
    ELSE IF HasText(msg.ct)
    THEN [w EXCEPT !.posts = ExtractPostData(@, QPDecode(msg.body)),
                   !.handed = Append(@, QPDecode(msg.body))]
    ELSE w

\* ----------------------------------------------------------- the inbox

\* Locators: an attachment's file name in two spellings, two remote images.
Apple == <<"apple", ".jpg">>

AppleUpper == <<"Apple", ".JPG">>

RemoteApple == <<"http://", "h", "/", "apple", ".jpg">>

RemotePear == <<"https://", "h", "/", "pear", ".png">>

\* ![alt](locator)
Md(alt, locator) == <<"![">> \o alt \o <<"](">> \o locator \o <<")">>

\* {{< figure src="locator" >}} and {{< img src="locator" >}}
Shortcode(word, locator) ==
    <<"{{<", " ", word, " ", "src=\"">> \o locator \o <<"\"", " ", ">}}">>

\* A text with its front matter; an empty title leaves the title line out.
Text(title, date, type, body) ==
    <<"---", "\n">>
      \o (IF title = <<>> THEN <<>> ELSE <<"title:">> \o title \o <<"\n">>)
      \o <<"date:">> \o date \o <<"\n">>
      \o (IF type = <<>> THEN <<>> ELSE <<"type:">> \o type \o <<"\n">>)
      \o <<"---", "\n">> \o body

Jan == <<"2015-01-02">>

Feb == <<"2015-02-03">>

Part(ct, filename, data, body, parts) ==
    [ct |-> ct, filename |-> filename, data |-> data, body |-> body,
     parts |-> parts]

TextPart(body) == Part(<<"text/", "plain">>, <<>>, "", body, <<>>)

ImagePart(sub, filename, data) ==
    Part(<<"image/">> \o sub, filename, data, <<>>, <<>>)

OtherPart(ct) == Part(ct, <<>>, "", <<"raw">>, <<>>)

Multipart(sub, parts) == Part(<<"multipart/", sub>>, <<>>, "", <<>>, parts)

Mail(from, root) == [from |-> from, ct |-> root.ct, body |-> root.body,
                     parts |-> root.parts]

\* The README's mail: an attached apple.jpg and the markdown that shows it.
MailReadme ==
    Mail("me", Multipart("mixed", <<
        TextPart(Text(<<"Hello">>, Jan, <<>>,
            Md(<<"An", " ", "apple">>,
               Apple \o <<" ", "\"", "This", "\"">>))),
        ImagePart(<<"jpeg">>, Apple, "good") >>))

\* Two references on one line, a later date and a type.
MailOneLine ==
    Mail("me", Multipart("mixed", <<
        TextPart(Text(<<"Hello">>, Feb, <<"Post">>,
            Md(<<"a">>, Apple) \o <<" ">> \o Md(<<"b">>, AppleUpper))),
        ImagePart(<<"jpeg">>, Apple, "good"),
        ImagePart(<<"png">>, AppleUpper, "good") >>))

\* The same locator twice, on two lines.
MailTwice ==
    Mail("me", Multipart("mixed", <<
        TextPart(Text(<<"Twice">>, Jan, <<>>,
            Md(<<"a">>, Apple) \o <<"\n">> \o Md(<<"b">>, Apple))),
        ImagePart(<<"jpeg">>, Apple, "good") >>))

\* A reference with no locator at all: ![a]()
MailEmptyRef ==
    Mail("me", Multipart("mixed", <<
        TextPart(Text(<<"Empty">>, Jan, <<>>, Md(<<"a">>, <<>>))),
        ImagePart(<<"jpeg">>, Apple, "good") >>))

\* A bare text mail, quoted-printable, showing two remote images.
MailRemote ==
    Mail("me", TextPart(Text(<<"Remote">>, Jan, <<>>,
        Md(<<"a">>, RemoteApple) \o <<"=\n", "\n">> \o Md(<<"b">>, RemotePear))))

\* A bare text mail naming apple.jpg, with nothing attached.
MailBare ==
    Mail("me", TextPart(Text(<<"Bare">>, Feb, <<>>, Md(<<"a">>, Apple))))

\* multipart/alternative inside multipart/mixed, both shortcodes, and an
\* attachment whose bytes are no image.
MailAlternative ==
    Mail("me", Multipart("mixed", <<
        Multipart("alternative", <<
            TextPart(Text(<<"Alt">>, Jan, <<>>,
                Shortcode("figure", Apple) \o <<"\n">>
                  \o Shortcode("img", Apple))),
            OtherPart(<<"text/", "html">>) >>),
        ImagePart(<<"png">>, Apple, "bad") >>))

\* Front matter without a title, a text that is no front matter at all, a
\* PDF and an image/jpeg2000.
MailNoTitle ==
    Mail("me", Multipart("mixed", <<
        TextPart(Text(<<>>, Jan, <<>>, <<"words">>)),
        TextPart(<<"words", " ", "only">>),
        OtherPart(<<"application/", "pdf">>),
        ImagePart(<<"jpeg", "2000">>, <<"scan", ".jp2">>, "good") >>))

\* Somebody else's mail.
MailStranger ==
    Mail("other", TextPart(Text(<<"Spam">>, Jan, <<>>, <<"words">>)))

\* A mail that is one image and nothing else.
MailImageOnly == Mail("me", ImagePart(<<"jpeg">>, Apple, "good"))

\* Two attachments of one name before the text that shows them.
MailSameName ==
    Mail("me", Multipart("mixed", <<
        ImagePart(<<"jpeg">>, Apple, "good"),
        ImagePart(<<"png">>, Apple, "good"),
        TextPart(Text(<<"Same">>, Jan, <<>>, Md(<<"a">>, Apple))) >>))

Mails ==
    {MailReadme, MailOneLine, MailTwice, MailEmptyRef, MailRemote, MailBare,
     MailAlternative, MailNoTitle, MailStranger, MailImageOnly, MailSameName}

NoMail == Mail("", OtherPart(<<>>))

\* -------------------------------------------------------------- state

VARIABLES
    pc,        \* where main and the function it is in stand
    once,      \* the -once flag
    run,       \* iterations of main's loop begun
    nmails,    \* mails fetched so far
    posts,     \* m.posts
    images,    \* m.images
    files,     \* the files written: path -> content
    p,         \* the post index of RetrieveImages and ReplaceImageRefs
    caps,      \* imageURLs of RetrieveImages
    matches,   \* mdImgMatches, scFigMatches, scImgMatches
    pass,      \* which of the three loops ReplaceImageRefs is in
    i,         \* the match index
    j,         \* the image index
    walk,      \* history: the mail just read and how its parts were dispatched
    saves,     \* history, per image: calls of SaveImage and files it wrote
    orig,      \* history, per post: the text it was extracted from
    done,      \* history, per post: the passes finished in this run
    wrote,     \* history, per post: what WritePostToFile wrote in this run
    fetched,   \* history: the http.Get calls and how each ended
    captured   \* history: the locators the three patterns have captured

vars == <<pc, once, run, nmails, posts, images, files, p, caps, matches, pass,
          i, j, walk, saves, orig, done, wrote, fetched, captured>>

loopVars == <<p, caps, matches, pass, i, j>>

NoMatches == [md |-> <<>>, fig |-> <<>>, img |-> <<>>]

NoFile == [path \in {} |-> <<>>]

NoWalk == [mail |-> NoMail, seen |-> <<>>, handed |-> <<>>,
           posts0 |-> 0, images0 |-> 0]

Init ==
    /\ pc = "connect"
    /\ once \in BOOLEAN
    /\ run = 0
    /\ nmails = 0
    /\ posts = <<>>
    /\ images = <<>>
    /\ files = NoFile
    /\ p = 1
    /\ caps = <<>>
    /\ matches = NoMatches
    /\ pass = "md"
    /\ i = 1
    /\ j = 1
    /\ walk = NoWalk
    /\ saves = <<>>
    /\ orig = <<>>
    /\ done = <<>>
    /\ wrote = <<>>
    /\ fetched = <<>>
    /\ captured = {}

\* Sequence s, grown to length n by copies of x.
Grown(s, n, x) == [k \in 1..n |-> IF k <= Len(s) THEN s[k] ELSE x]

NoSave == [calls |-> 0, written |-> 0]

\* ------------------------------------------------------------- main

\* m.Connect() at the top of main's loop.
Connect ==
    /\ pc = "connect"
    /\ run < MaxRuns
    /\ pc' = "fetch"
    /\ run' = run + 1
    /\ done' = [q \in 1..Len(posts) |-> <<>>]
    /\ wrote' = [q \in 1..Len(posts) |-> <<>>]
    /\ UNCHANGED <<once, nmails, posts, images, files, loopVars, walk, saves,
                   orig, fetched, captured>>

\* FetchMails, one unread message.
FetchMail ==
    /\ pc = "fetch"
    /\ nmails < MaxMails
    /\ \E msg \in Mails :
         LET w == ReadMessage(msg, [posts |-> posts, images |-> images,
                                    seen |-> <<>>, handed |-> <<>>])
         IN  /\ posts' = w.posts
             /\ images' = w.images
             /\ walk' = [mail |-> msg, seen |-> w.seen, handed |-> w.handed,
                         posts0 |-> Len(posts), images0 |-> Len(images)]
             /\ saves' = Grown(saves, Len(w.images), NoSave)
             /\ done' = Grown(done, Len(w.posts), <<>>)
             /\ wrote' = Grown(wrote, Len(w.posts), <<>>)
             /\ orig' = [q \in 1..Len(w.posts) |->
                           IF q <= Len(orig) THEN orig[q] ELSE w.posts[q].Data]
    /\ nmails' = nmails + 1
    /\ UNCHANGED <<pc, once, run, files, loopVars, fetched, captured>>

\* FetchMails returns; RetrieveImages begins.
FetchDone ==
    /\ pc = "fetch"
    /\ pc' = "retrieve"
    /\ p' = 1
    /\ walk' = NoWalk
    /\ UNCHANGED <<once, run, nmails, posts, images, files, caps, matches,
                   pass, i, j, saves, orig, done, wrote, fetched, captured>>

\* ---------------------------------------------------- RetrieveImages

\* The head of the loop over the posts: the remote references of the next
\* post (a post with none is passed at once), or the end of RetrieveImages.
RetrievePost ==
    /\ pc = "retrieve"
    /\ IF p > Len(posts)
       THEN /\ pc' = "replace"
            /\ p' = 1
            /\ UNCHANGED <<caps, i>>
       ELSE LET imageURLs == FindAllStringSubmatch("reRemote", posts[p].Data)
            IN  /\ caps' = imageURLs
                /\ i' = 1
                /\ IF imageURLs = <<>>
                   THEN pc' = pc /\ p' = p + 1
                   ELSE pc' = "get" /\ UNCHANGED p
    /\ UNCHANGED <<once, run, nmails, posts, images, files, matches, pass, j,
                   walk, saves, orig, done, wrote, fetched, captured>>

\* The loop over the references of one post ends.
RetrieveNext ==
    /\ pc = "get"
    /\ i > Len(caps)
    /\ pc' = "retrieve"
    /\ p' = p + 1
    /\ UNCHANGED <<once, run, nmails, posts, images, files, caps, matches,
                   pass, i, j, walk, saves, orig, done, wrote, fetched,
                   captured>>

Fetched(result) == Append(fetched, [run |-> run, url |-> caps[i],
                                    result |-> result])

\* http.Get answers 200: the image joins the working set under the URL and
\* the base name of the URL's path.
GetOK ==
    /\ pc = "get"
    /\ i <= Len(caps)
    /\ images' = ExtractImageData(images,
                    NewImage(caps[i], Base(UrlPath(caps[i])), "good"))
    /\ saves' = Append(saves, NoSave)
    /\ i' = i + 1
    /\ fetched' = Fetched("ok")
    /\ UNCHANGED <<pc, once, run, nmails, posts, files, p, caps, matches,
                   pass, j, walk, orig, done, wrote, captured>>

\* http.Get answers another status (or fails with a response): the error is
\* logged and RetrieveImages returns.
GetStatus ==
    /\ pc = "get"
    /\ i <= Len(caps)
    /\ pc' = "replace"
    /\ p' = 1
    /\ fetched' = Fetched("status")
    /\ UNCHANGED <<once, run, nmails, posts, images, files, caps, matches,
                   pass, i, j, walk, saves, orig, done, wrote, captured>>

\* http.Get fails without a response: the log line reads reqImg.StatusCode
\* of a nil response and the process panics.
GetError ==
    /\ pc = "get"
    /\ i <= Len(caps)
    /\ pc' = "panic"
    /\ fetched' = Fetched("error")
    /\ UNCHANGED <<once, run, nmails, posts, images, files, loopVars, walk,
                   saves, orig, done, wrote, captured>>

\* --------------------------------------------------- ReplaceImageRefs

\* SaveImage up to image.Decode: the path and the URL of the image, from the
\* date of the related post.
SaveImage(imageInfo, relatedPost) ==
    LET pathData == [Date |-> MakeDatePathPart(relatedPost.Date),
                     Type |-> <<>>]
        dir == MakePathFromTemplate(ImageDir, pathData)
    IN  [imageInfo EXCEPT
           !.Path = Join(<<dir, imageInfo.Name>>),
           !.URL  = Join(<<BaseURL, ImagePath, pathData.Date, imageInfo.Name>>)]

\* image.Decode of the bytes succeeds.
Decodes(imageInfo) == imageInfo.Data = "good"

\* The content of a file jpeg.Encode wrote.
Jpeg == <<"JPEG">>

Range(s) == { s[k] : k \in 1..Len(s) }

\* The locators the three patterns of ReplaceImageRefs capture in a text.
Locators(text) ==
    Range(FindAllStringSubmatch("reMdImg", text))
      \cup Range(FindAllStringSubmatch("reScFig", text))
      \cup Range(FindAllStringSubmatch("reScImg", text))

\* The head of the loop over the posts: the three lists of matches of the
\* next post, or the end of ReplaceImageRefs.
BeginPost ==
    /\ pc = "replace"
    /\ IF p > Len(posts)
       THEN /\ pc' = "logout"
            /\ UNCHANGED <<matches, pass, i, j, captured>>
       ELSE /\ pc' = "match"
            /\ matches' =
                 [md  |-> FindAllStringSubmatch("reMdImg", posts[p].Data),
                  fig |-> FindAllStringSubmatch("reScFig", posts[p].Data),
                  img |-> FindAllStringSubmatch("reScImg", posts[p].Data)]
            /\ pass' = "md"
            /\ i' = 1
            /\ j' = 1
            /\ captured' = captured \cup Locators(posts[p].Data)
    /\ UNCHANGED <<once, run, nmails, posts, images, files, p, caps, walk,
                   saves, orig, done, wrote, fetched>>

\* The condition of the inner loop's if.
Matches(imageInfo, locator) ==
    \/ imageInfo.OrigName = locator
    \/ imageInfo.OrigURL = locator

InLoop ==
    /\ pc = "match"
    /\ i <= Len(matches[pass])
    /\ j <= Len(images)

\* j++, and after the last image i++ with j back at the first.
Step ==
    IF j < Len(images)
    THEN j' = j + 1 /\ i' = i
    ELSE j' = 1 /\ i' = i + 1

\* Image j matches match i and decodes: it is saved and the first occurrence
\* of the locator in the post becomes its URL.
Resolve ==
    /\ InLoop
    /\ Matches(images[j], matches[pass][i])
    /\ Decodes(images[j])
    /\ LET saved == SaveImage(images[j], posts[p])
       IN  /\ images' = [images EXCEPT ![j] = saved]
           /\ files' = (saved.Path :> Jpeg) @@ files
           /\ posts' = [posts EXCEPT ![p].Data =
                          Replace(@, matches[pass][i], saved.URL)]
    /\ saves' = [saves EXCEPT ![j] = [calls |-> @.calls + 1,
                                      written |-> @.written + 1]]
    /\ Step
    /\ UNCHANGED <<pc, once, run, nmails, p, caps, matches, pass, walk, orig,
                   done, wrote, fetched, captured>>

\* Image j matches match i and does not decode: SaveImage logs the failure
\* and calls Bounds on the nil image, and the process panics.
ResolveUndecodable ==
    /\ InLoop
    /\ Matches(images[j], matches[pass][i])
    /\ ~Decodes(images[j])
    /\ images' = [images EXCEPT ![j] = SaveImage(images[j], posts[p])]
    /\ saves' = [saves EXCEPT ![j].calls = @ + 1]
    /\ pc' = "panic"
    /\ UNCHANGED <<once, run, nmails, posts, files, loopVars, walk, orig,
                   done, wrote, fetched, captured>>

\* Image j does not match match i.
Skip ==
    /\ InLoop
    /\ ~Matches(images[j], matches[pass][i])
    /\ Step
    /\ UNCHANGED <<pc, once, run, nmails, posts, images, files, p, caps,
                   matches, pass, walk, saves, orig, done, wrote, fetched,
                   captured>>

\* A match with no image to compare it with: the next match.
NextMatch ==
    /\ pc = "match"
    /\ i <= Len(matches[pass])
    /\ j > Len(images)
    /\ i' = i + 1
    /\ j' = 1
    /\ UNCHANGED <<pc, once, run, nmails, posts, images, files, p, caps,
                   matches, pass, walk, saves, orig, done, wrote, fetched,
                   captured>>

\* The loop over the matches of one pattern ends: the next pattern, and
\* after the third the post is written.
EndPass ==
    /\ pc = "match"
    /\ i > Len(matches[pass])
    /\ done' = [done EXCEPT ![p] = Append(@, pass)]
    /\ IF pass = "img"
       THEN pc' = "write" /\ UNCHANGED pass
       ELSE pc' = pc /\ pass' = (IF pass = "md" THEN "fig" ELSE "img")
    /\ i' = 1
    /\ j' = 1
    /\ UNCHANGED <<once, run, nmails, posts, images, files, p, caps, matches,
                   walk, saves, orig, wrote, fetched, captured>>

\* The write moved ahead of the three passes.
WritePostEarly ==
    /\ pc = "match"
    /\ pass = "md"
    /\ i = 1
    /\ j = 1
    /\ wrote[p] = <<>>
    /\ files' = (Join(<<posts[p].Path, posts[p].File>>) :> posts[p].Data)
                  @@ files
    /\ wrote' = [wrote EXCEPT ![p] = Append(@, posts[p].Data)]
    /\ UNCHANGED <<pc, once, run, nmails, posts, images, loopVars, walk,
                   saves, orig, done, fetched, captured>>

\* WritePostToFile(m.posts[p]), and the loop over the posts goes on.
WritePostToFile ==
    /\ pc = "write"
    /\ files' = (Join(<<posts[p].Path, posts[p].File>>) :> posts[p].Data)
                  @@ files
    /\ wrote' = [wrote EXCEPT ![p] = Append(@, posts[p].Data)]
    /\ p' = p + 1
    /\ pc' = "replace"
    /\ UNCHANGED <<once, run, nmails, posts, images, caps, matches, pass, i,
                   j, walk, saves, orig, done, fetched, captured>>

\* m.client.Logout, then os.Exit(0) with -once and the sleep without.
Logout ==
    /\ pc = "logout"
    /\ pc' = (IF once THEN "exit" ELSE "connect")
    /\ UNCHANGED <<once, run, nmails, posts, images, files, loopVars, walk,
                   saves, orig, done, wrote, fetched, captured>>

Next ==
    \/ Connect
    \/ FetchMail
    \/ FetchDone
    \/ RetrievePost
    \/ RetrieveNext
    \/ GetOK
    \/ GetStatus
    \/ GetError
    \/ BeginPost
    \/ Resolve
    \/ ResolveUndecodable
    \/ Skip
    \/ NextMatch
    \/ EndPass
    \/ WritePostToFile
    \/ Logout

Spec == Init /\ [][Next]_vars

\* ------------------------------------------------------------- claims

\* The join key of an image in the words of the specification: the URL of a
\* fetched image, the file name of an attached one.
OriginIdentifier(imageInfo) ==
    IF imageInfo.OrigURL # <<>> THEN imageInfo.OrigURL ELSE imageInfo.OrigName

Posts == 1..Len(posts)

Images == 1..Len(images)

Written(q) == wrote[q] # <<>>

\* C1: once a post has been written, none of the references the three
\* patterns find in its body still has a locator that is the origin
\* identifier of a known image.
C1_EveryMatchedReferenceRewritten ==
    \A q \in Posts : Written(q) =>
        \A k \in Images :
            OriginIdentifier(images[k]) \notin Locators(Last(wrote[q]))

\* C2: SaveImage is called at most once for every image, however many
\* matches it has in however many posts.
C2_SavedAtMostOnce == \A k \in Images : saves[k].calls <= 1

\* C3: an image whose origin identifier no pattern has captured from a
\* post's body has no path, no URL and no file.
C3_UnreferencedNeverSaved ==
    \A k \in Images :
        OriginIdentifier(images[k]) \notin captured =>
            /\ images[k].Path = <<>>
            /\ images[k].URL = <<>>
            /\ saves[k].calls = 0

\* C4: every post of the working set has a title.
C4_EveryPostHasTitle == \A q \in Posts : posts[q].Title # <<>>

\* RetrieveImages has returned in this run.
Retrieved == pc \in {"replace", "match", "write", "logout", "exit"}

\* C5: a failed fetch does not end the process, and when RetrieveImages has
\* returned, http.Get has been called for every remote reference of every
\* post.
C5_FailedFetchSkipsOneURL ==
    /\ (\E k \in 1..Len(fetched) : fetched[k].result = "error")
          => pc # "panic"
    /\ Retrieved =>
          \A q \in Posts :
              \A u \in Range(FindAllStringSubmatch("reRemote", orig[q])) :
                  \E k \in 1..Len(fetched) : fetched[k].url = u

\* C6: after SaveImage was called on an image that does not decode, the
\* process still runs and no file was written for the image.
C6_UndecodableImageSkipped ==
    \A k \in Images :
        (saves[k].calls > 0 /\ ~Decodes(images[k])) =>
            /\ pc # "panic"
            /\ saves[k].written = 0

\* C7: every iteration of the poll loop begins with no post and no image.
C7_IterationStartsEmpty ==
    pc = "connect" => (posts = <<>> /\ images = <<>>)

\* C8: a post in whose text no captured locator is the origin identifier of
\* a known image is written as it was extracted.
C8_UnmatchedPostUnchanged ==
    \A q \in Posts :
        ( /\ Written(q)
          /\ \A k \in Images :
               OriginIdentifier(images[k]) \notin Locators(orig[q]) )
        => Last(wrote[q]) = orig[q]

RECURSIVE AllParts(_)
AllParts(parts) ==
    IF parts = <<>> THEN <<>>
    ELSE <<Head(parts)>>
           \o (IF HasPrefix(Head(parts).ct, <<"multipart/">>)
               THEN AllParts(Head(parts).parts) ELSE <<>>)
           \o AllParts(Tail(parts))

IsImagePart(part) ==
    \/ HasPrefix(part.ct, <<"image/", "jpeg">>)
    \/ HasPrefix(part.ct, <<"image/", "png">>)

IsPlainPart(part) == HasPrefix(part.ct, <<"text/", "plain">>)

\* The handler of a part by the prefix of its type: multipart/alternative is
\* a multipart.
HandlerByPrefix(part) ==
    IF HasPrefix(part.ct, <<"multipart/">>) THEN "multipart"
    ELSE IF IsImagePart(part) THEN "image"
    ELSE IF IsPlainPart(part) THEN "text"
    ELSE "none"

\* The parts of s that HandlerByPrefix gives to handler h, in their order.
RECURSIVE Select(_, _)
Select(s, h) ==
    IF s = <<>> THEN <<>>
    ELSE (IF HandlerByPrefix(Head(s)) = h THEN <<Head(s)>> ELSE <<>>)
           \o Select(Tail(s), h)

\* The mail just read was a multipart mail of the accepted sender.
Walked == walk.mail.from = PostFrom /\ HasPrefix(walk.mail.ct, <<"multipart/">>)

\* C10, amended: every part of the tree, the parts of every multipart/* part
\* (multipart/alternative too) included, is dispatched once, by the prefix
\* of its type; the image parts add one image each, named by the file name,
\* in the order of the tree; the text/plain parts, and no others, are handed
\* to ExtractPostData with their body.
C10_DispatchByPrefix ==
    Walked =>
        LET all == AllParts(walk.mail.parts)
            pictures == Select(all, "image")
            texts == Select(all, "text")
        IN  /\ Len(walk.seen) = Len(all)
            /\ \A k \in 1..Len(all) :
                 walk.seen[k] = [ct |-> all[k].ct, to |-> HandlerByPrefix(all[k])]
            /\ Len(images) = walk.images0 + Len(pictures)
            /\ \A k \in 1..Len(pictures) :
                 images[walk.images0 + k].OrigName = pictures[k].filename
            /\ walk.handed = [k \in 1..Len(texts) |-> texts[k].body]

\* C10, reached: a mail with a multipart/alternative part inside has been
\* walked, and its text and its image have joined the working sets.
C10_Witness ==
    /\ Walked
    /\ \E k \in 1..Len(walk.seen) :
         HasPrefix(walk.seen[k].ct, <<"multipart/", "alternative">>)
    /\ walk.handed # <<>>
    /\ Len(images) > walk.images0
    /\ Len(posts) > walk.posts0

\* C10 as claimed: multipart/alternative parts are read as text, the other
\* multipart parts are recursed into.
C10_AlternativeReadAsText ==
    \A k \in 1..Len(walk.seen) :
        walk.seen[k].to =
            (IF HasPrefix(walk.seen[k].ct, <<"multipart/", "alternative">>)
                  \/ HasPrefix(walk.seen[k].ct, <<"text/", "plain">>)
             THEN "text"
             ELSE IF HasPrefix(walk.seen[k].ct, <<"multipart/">>)
             THEN "multipart"
             ELSE IF \/ HasPrefix(walk.seen[k].ct, <<"image/", "jpeg">>)
                     \/ HasPrefix(walk.seen[k].ct, <<"image/", "png">>)
             THEN "image"
             ELSE "none")

====
